---- MODULE Spec2Model ----
(***************************************************************************)
(* Model of the HelioCloud metadata generators in                          *)
(*   src/modeloutputs_metadata.py      (model-output catalog / registry)   *)
(*   src/flythroughoutputs_metadata.py (flythrough catalog / registry)     *)
(*                                                                         *)
(* Strings are sequences of one-character strings, so that slicing,        *)
(* os.path.split and isoformat are computed character by character.        *)
(* Four specifications share the variables:                                *)
(*   SpecBucket    - bucket_name (both copies)                             *)
(*   SpecRegistry  - modelregistry / flythroughregistry and the files      *)
(*   SpecCatalog   - modelcatalog_entry / flythroughcatalog_entry          *)
(*   SpecCrossings - find_magnetopause_crossings                           *)
(***************************************************************************)
EXTENDS Integers, Sequences, FiniteSets, TLC

VARIABLES
    \* ---- bucket_name ----
    bn_platform,   \* which os.path the interpreter binds: "posix" or "nt"
    bn_file_dir,   \* the argument file_dir
    bn_model,      \* result of modeloutputs_metadata.bucket_name
    bn_fly,        \* result of flythroughoutputs_metadata.bucket_name
    bn_pc,         \* "input", "model_returned", "returned"; "off": not run
    \* ---- registry builds ----
    pc,            \* "idle", "model_loop", "fly_loop", "done", "error"; "off"
    kind,          \* "none", "model", "fly": the build that is running
    runs,          \* number of builds started so far
    rows,          \* modelregistry: start year of every row, in loop order
    files,         \* flythroughregistry: glob result, [year, units] per file
    idx,           \* number of rows / files already processed
    year,          \* modelregistry: the local variable year
    write_file,    \* modelregistry: the local variable write_file
    openHandles,   \* file objects that are open
    csv,           \* the registry CSV files on disk: name -> content
    produced,      \* CSV files opened by the running build
    openLog,       \* the open() calls of the running build, in order
    desc,          \* descriptor files on disk: kind -> [exists, writes]
    descExisted,   \* did the descriptor exist when the build started
    descWritten,   \* did the build write the descriptor
    file_dict,     \* flythroughregistry: the local dictionary file_dict
    coord,         \* flythroughregistry: locals coord1, coord2, coord3
    err,           \* the exception that ended the build, "" if none
    \* ---- catalog entries ----
    cat_pc,        \* "input" before the call, "returned" after; "off"
    cat_in,        \* the arguments and what the collaborators answered
    cat_out,       \* the returned dictionary or the raised exception
    \* ---- find_magnetopause_crossings ----
    cr_pc,         \* "input" before the call, "returned" after; "off"
    sc_to_mp,      \* the argument
    crossings      \* the returned index array

bnVars  == <<bn_platform, bn_file_dir, bn_model, bn_fly, bn_pc>>
regVars == <<pc, kind, runs, rows, files, idx, year, write_file, openHandles,
             csv, produced, openLog, desc, descExisted, descWritten,
             file_dict, coord, err>>
catVars == <<cat_pc, cat_in, cat_out>>
crVars  == <<cr_pc, sc_to_mp, crossings>>
vars    == <<bnVars, regVars, catVars, crVars>>

(***************************************************************************)
(* Bounds                                                                  *)
(***************************************************************************)
YearSpan == 1      \* start years range over 2020 .. 2020 + YearSpan
MaxRows  == 3      \* rows of one modelregistry build
MaxFiles == 2      \* files of one flythroughregistry build
MaxRuns  == 2      \* registry builds run one after the other
MaxSegs  == 2      \* subdirectory segments of a path
MaxLen   == 5      \* length of a signed-difference sequence

Years == 2020 .. (2020 + YearSpan)

(***************************************************************************)
(* Strings                                                                 *)
(***************************************************************************)
Max(S) == CHOOSE m \in S : \A k \in S : k <= m

\* Python s[:b] for 0 <= b
Take(s, b) == SubSeq(s, 1, IF b < Len(s) THEN b ELSE Len(s))

\* Python s[a:-1] for 0 <= a
SliceToLast(s, a) == SubSeq(s, a + 1, Len(s) - 1)

\* Python: c in s
Contains(s, c) == \E k \in 1 .. Len(s) : s[k] = c

RECURSIVE rstrip(_, _)
rstrip(s, seps) ==
    IF s # <<>> /\ s[Len(s)] \in seps
    THEN rstrip(SubSeq(s, 1, Len(s) - 1), seps)
    ELSE s

(***************************************************************************)
(* bucket_name                                                             *)
(***************************************************************************)
S3 == <<"s", "3", ":", "/", "/">>
Slash == "/"
Backslash == "\\"

\* the separators os.path.split cuts at: posixpath '/', ntpath '/' and '\'
Seps(platform) == IF platform = "nt" THEN {Slash, Backslash} ELSE {Slash}

\* os.path.split(p): cut after the last separator; the head loses its
\* trailing separators unless it consists of separators only
split(p, seps) ==
    LET S    == {k \in 1 .. Len(p) : p[k] \in seps}
        i    == IF S = {} THEN 0 ELSE Max(S)
        head == SubSeq(p, 1, i)
        tail == SubSeq(p, i + 1, Len(p))
        cut  == rstrip(head, seps)
    IN  <<IF cut # <<>> THEN cut ELSE head, tail>>

\* the loop left out: the head of the first split is taken as the bucket
bucket_loop_once(tmp, seps) ==
    [ret |-> "value", val |-> S3 \o tmp[1] \o <<Slash>>]

\* while '/' in tmp[0] or '\\' in tmp[0]: tmp = split(tmp[0])
\* A head that split maps to itself keeps the loop running for ever.
RECURSIVE bucket_loop(_, _)
bucket_loop(tmp, seps) ==
    IF Contains(tmp[1], Slash) \/ Contains(tmp[1], Backslash)
    THEN LET nxt == split(tmp[1], seps)
         IN  IF nxt[1] = tmp[1]
             THEN [ret |-> "hang", val |-> <<>>]
             ELSE bucket_loop(nxt, seps)
    ELSE [ret |-> "value", val |-> S3 \o tmp[1] \o <<Slash>>]

\* modeloutputs_metadata.bucket_name
bucket_name(file_dir, platform) ==
    bucket_loop(split(SliceToLast(file_dir, 5), Seps(platform)),
                Seps(platform))

\* flythroughoutputs_metadata.bucket_name
fly_bucket_name(file_dir, platform) ==
    bucket_loop(split(SliceToLast(file_dir, 5), Seps(platform)),
                Seps(platform))

\* ---- inputs: s3://<bucket>/<sub1>/.../<subN>/ ----
BucketChars == {"a", "b"}
SegChars    == {"x", Backslash}

\* non-empty strings of at most two characters
Words(chars) == {<<c>> : c \in chars} \cup {<<c, d>> : c \in chars, d \in chars}

BucketNames == Words(BucketChars)
SegNames    == Words(SegChars)

SegLists == UNION {[1 .. n -> SegNames] : n \in 1 .. MaxSegs}

RECURSIVE JoinSegs(_)
JoinSegs(segs) ==
    IF segs = <<>> THEN <<>>
    ELSE Head(segs) \o <<Slash>> \o JoinSegs(Tail(segs))

PathOf(b, segs) == S3 \o b \o <<Slash>> \o JoinSegs(segs)

ValidPaths == {PathOf(b, segs) : b \in BucketNames, segs \in SegLists}

\* the path of the documented example and its bucket
ExamplePath   == <<"s", "3", ":", "/", "/",
                  "m", "y", "b", "u", "c", "k", "e", "t", "/",
                  "M", "o", "d", "e", "l", "O", "u", "t", "p", "u", "t", "s",
                  "/",
                  "r", "u", "n", "1", "/">>
ExampleBucket == <<"s", "3", ":", "/", "/",
                  "m", "y", "b", "u", "c", "k", "e", "t", "/">>

\* the path is s3://<b>/ followed by at least one non-empty segment
IsPathOfBucket(p, b) == \E segs \in SegLists : p = PathOf(b, segs)

\* paths that name only the bucket: s3://<bucket>/
BarePaths == {S3 \o b \o <<Slash>> : b \in BucketNames}

\* paths outside the expected form: the scheme prefix left out, or the
\* trailing slash left out
NoSchemePaths   == {SubSeq(p, 6, Len(p)) : p \in ValidPaths}
NoTrailingPaths == {SubSeq(p, 1, Len(p) - 1) : p \in ValidPaths}

\* every string bucket_name is called with here
BucketInputs ==
    ValidPaths \cup {ExamplePath} \cup BarePaths \cup NoSchemePaths
    \cup NoTrailingPaths

NoResult == [ret |-> "none", val |-> <<>>]

CallBucketName ==
    /\ bn_pc = "input"
    /\ bn_model' = bucket_name(bn_file_dir, bn_platform)
    /\ bn_pc' = "model_returned"
    /\ UNCHANGED <<bn_platform, bn_file_dir, bn_fly>>

CallFlyBucketName ==
    /\ bn_pc = "model_returned"
    /\ bn_fly' = fly_bucket_name(bn_file_dir, bn_platform)
    /\ bn_pc' = "returned"
    /\ UNCHANGED <<bn_platform, bn_file_dir, bn_model>>

(***************************************************************************)
(* find_magnetopause_crossings                                             *)
(***************************************************************************)
\* numpy.sign, element by element
np_sign(a) == [k \in 1 .. Len(a) |-> IF a[k] < 0 THEN -1
                                     ELSE IF a[k] > 0 THEN 1 ELSE 0]

\* numpy.diff: out[k] = a[k+1] - a[k], one element shorter (empty stays empty)
np_diff(a) == [k \in 1 .. (IF Len(a) = 0 THEN 0 ELSE Len(a) - 1) |->
                  a[k + 1] - a[k]]

\* the index after the change instead of the index before it
RECURSIVE np_where_after(_)
np_where_after(a) ==
    IF a = <<>> THEN <<>>
    ELSE LET front == np_where_after(SubSeq(a, 1, Len(a) - 1))
         IN  IF a[Len(a)] # 0 THEN Append(front, Len(a)) ELSE front

\* numpy.where(a)[0]: the 0-based indices of the non-zero elements, ascending
RECURSIVE np_where(_)
np_where(a) ==
    IF a = <<>> THEN <<>>
    ELSE LET front == np_where(SubSeq(a, 1, Len(a) - 1))
         IN  IF a[Len(a)] # 0 THEN Append(front, Len(a) - 1) ELSE front

find_magnetopause_crossings(s) == np_where(np_diff(np_sign(s)))

Distances == {-1, 0, 1, 2}

DistanceSeqs == UNION {[1 .. n -> Distances] : n \in 0 .. MaxLen}

CallFindCrossings ==
    /\ cr_pc = "input"
    /\ crossings' = find_magnetopause_crossings(sc_to_mp)
    /\ cr_pc' = "returned"
    /\ UNCHANGED sc_to_mp

(***************************************************************************)
(* datetime and isoformat                                                  *)
(***************************************************************************)
DigitChars == <<"0", "1", "2", "3", "4", "5", "6", "7", "8", "9">>

\* '%d' % n: no leading zeros
RECURSIVE PadNone(_, _)
PadNone(n, w) ==
    IF n < 10 THEN <<DigitChars[n + 1]>>
    ELSE PadNone(n \div 10, w - 1) \o <<DigitChars[(n % 10) + 1]>>

\* '%0<w>d' % n for 0 <= n < 10^w
RECURSIVE Pad(_, _)
Pad(n, w) ==
    IF w = 0 THEN <<>>
    ELSE Pad(n \div 10, w - 1) \o <<DigitChars[(n % 10) + 1]>>

\* datetime.isoformat(): 'YYYY-MM-DDTHH:MM:SS', then '.ffffff' when the
\* microsecond is not 0, then '+00:00' when the datetime carries tzinfo UTC
isoformat(dt, aware) ==
    Pad(dt.y, 4) \o <<"-">> \o Pad(dt.mo, 2) \o <<"-">> \o Pad(dt.d, 2)
    \o <<"T">> \o Pad(dt.h, 2) \o <<":">> \o Pad(dt.mi, 2)
    \o <<":">> \o Pad(dt.s, 2)
    \o (IF dt.us # 0 THEN <<".">> \o Pad(dt.us, 6) ELSE <<>>)
    \o (IF aware THEN <<"+", "0", "0", ":", "0", "0">> ELSE <<>>)

\* the datetimes the collaborators answer with
DateTimes == [y : Years, mo : {9, 10}, d : {1}, h : {0, 23}, mi : {0},
              s : {5, 59}, us : {0, 250000}]

\* the instants datetime.utcnow() and the publication record take
NowTimes == {[y |-> 2023, mo |-> 4, d |-> 27, h |-> 17, mi |-> 6, s |-> 4,
              us |-> 0],
             [y |-> 2023, mo |-> 11, d |-> 5, h |-> 9, mi |-> 30, s |-> 59,
              us |-> 123456]}

DtKey(dt) == <<dt.y, dt.mo, dt.d, dt.h, dt.mi, dt.s, dt.us>>

\* a <= b for tuples of numbers of the same length, first difference decides
RECURSIVE TupleLeq(_, _)
TupleLeq(a, b) ==
    IF a = <<>> THEN TRUE
    ELSE IF Head(a) # Head(b) THEN Head(a) < Head(b)
    ELSE TupleLeq(Tail(a), Tail(b))

\* datetime comparison a <= b (both naive or both UTC)
DtLeq(a, b) == TupleLeq(DtKey(a), DtKey(b))

(***************************************************************************)
(* Catalog entries                                                         *)
(***************************************************************************)
GITM  == <<"G", "I", "T", "M">>
CTIPe == <<"C", "T", "I", "P", "e">>
ModelNames == {GITM, CTIPe}

\* the table file_formats, for the model names used here
file_formats(model_name) ==
    IF model_name = GITM THEN <<"netcdf4", "txt">>
    ELSE <<"netcdf3", "netcdf4", "txt">>

Dash == <<"-">>
FlythroughSuffix == <<"-", "F", "l", "y", "t", "h", "r", "o", "u", "g", "h">>
ModelOutputsDir == <<"M", "o", "d", "e", "l",
                     "O", "u", "t", "p", "u", "t", "s", "/">>
FlythroughResultsDir == <<"F", "l", "y", "t", "h", "r", "o", "u", "g", "h",
                          "R", "e", "s", "u", "l", "t", "s", "/">>
RunR1 == <<"r", "1">>
RunNames == {RunR1, RunR1 \o FlythroughSuffix}
CatalogFileDir == S3 \o <<"a", "/", "x", "/">>

NoEntry == [id |-> <<>>, loc |-> <<>>, startDate |-> <<>>, stopDate |-> <<>>,
            modificationDate |-> <<>>, creationDate |-> <<>>,
            fileFormat |-> <<>>]

NoDoc == [has_key |-> FALSE, runPublicationTime |-> <<>>]

\* a failed retrieval answered with the current time instead of an exception
retrieve_modeljson_default(resourceURL, fetch, pub, now) ==
    [exc |-> "",
     doc |-> [has_key |-> TRUE,
              runPublicationTime |->
                  isoformat(IF resourceURL # "" /\ fetch = "ok"
                            THEN pub ELSE now, FALSE)]]

\* retrieve_modeljson: with a resourceURL, urlopen raises on a network error
\* and json.load on a malformed body, otherwise the parsed document is
\* returned as it is; without one, the current time stands in
retrieve_modeljson(resourceURL, fetch, pub, now) ==
    IF resourceURL # ""
    THEN IF fetch = "network_error"
         THEN [exc |-> "URLError", doc |-> NoDoc]
         ELSE IF fetch = "malformed_json"
         THEN [exc |-> "JSONDecodeError", doc |-> NoDoc]
         ELSE IF fetch = "no_key"
         THEN [exc |-> "", doc |-> NoDoc]
         ELSE [exc |-> "",
               doc |-> [has_key |-> TRUE,
                        runPublicationTime |-> isoformat(pub, FALSE)]]
    ELSE [exc |-> "",
          doc |-> [has_key |-> TRUE,
                   runPublicationTime |-> isoformat(now, FALSE)]]

Raised(e) == [status |-> "raised", exc |-> e, entry |-> NoEntry]

\* modelcatalog_entry; the free-text fields (title, description, citation,
\* contact, contactID, aboutURL) are copied through and left out
modelcatalog_entry(in) ==
    LET bucketname == bucket_name(in.file_dir, "posix")
        model_json == retrieve_modeljson(in.resourceURL, in.fetch, in.pub,
                                         in.now)
    IN  IF model_json.exc # "" THEN Raised(model_json.exc)
        ELSE IF ~model_json.doc.has_key THEN Raised("KeyError")
        ELSE [status |-> "entry", exc |-> "",
              entry |-> [
                id |-> in.model_name \o Dash \o in.run_name,
                loc |-> bucketname.val \o ModelOutputsDir,
                startDate |->
                    Take(isoformat(in.start_dt, in.aware), 19) \o <<"Z">>,
                stopDate |->
                    Take(isoformat(in.stop_dt, in.aware), 19) \o <<"Z">>,
                modificationDate |->
                    Take(isoformat(in.now, FALSE), 19) \o <<"Z">>,
                creationDate |->
                    Take(model_json.doc.runPublicationTime, 19) \o <<"Z">>,
                fileFormat |-> file_formats(in.model_name)]]

\* flythroughcatalog_entry; free-text fields left out as above
flythroughcatalog_entry(in) ==
    LET bucketname == fly_bucket_name(in.file_dir, "posix")
        time_now   == isoformat(in.now, FALSE)
    IN  [status |-> "entry", exc |-> "",
         entry |-> [
           id |-> in.model_name \o Dash \o in.run_name \o FlythroughSuffix,
           loc |-> bucketname.val \o FlythroughResultsDir,
           startDate |->
               Take(isoformat(in.start_dt, in.aware), 19) \o <<"Z">>,
           stopDate |->
               Take(isoformat(in.stop_dt, in.aware), 19) \o <<"Z">>,
           modificationDate |-> Take(time_now, 19) \o <<"Z">>,
           creationDate |-> Take(time_now, 10) \o <<"Z">>,
           fileFormat |-> <<"netcdf4">>]]

\* what the remote publication-metadata fetch can come to
Fetches == {"ok", "network_error", "malformed_json", "no_key"}

\* MW.File_Times answers with the earliest and the latest file time of the
\* dataset, so start_dt <= stop_dt; both carry the same tzinfo
CatalogInputs ==
    {in \in [fn : {"model", "fly"}, model_name : ModelNames,
             run_name : RunNames, file_dir : {CatalogFileDir},
             start_dt : DateTimes, stop_dt : DateTimes, aware : BOOLEAN,
             now : NowTimes, pub : NowTimes, resourceURL : {"", "url"},
             fetch : Fetches \cup {"not_fetched"}] :
        /\ DtLeq(in.start_dt, in.stop_dt)
        /\ in.fetch = "not_fetched" <=> (in.fn = "fly" \/ in.resourceURL = "")
        /\ in.fn = "fly" => in.resourceURL = ""
        /\ in.fetch # "ok" => in.pub = in.now}

NoOutput == [status |-> "none", exc |-> "", entry |-> NoEntry]

CallModelCatalogEntry ==
    /\ cat_pc = "input"
    /\ cat_in.fn = "model"
    /\ cat_out' = modelcatalog_entry(cat_in)
    /\ cat_pc' = "returned"
    /\ UNCHANGED cat_in

CallFlythroughCatalogEntry ==
    /\ cat_pc = "input"
    /\ cat_in.fn = "fly"
    /\ cat_out' = flythroughcatalog_entry(cat_in)
    /\ cat_pc' = "returned"
    /\ UNCHANGED cat_in

(***************************************************************************)
(* Registry files                                                          *)
(***************************************************************************)
\* what write() puts into a CSV file: the header text, the text of one row,
\* or a line break
HdrTok       == [t |-> "hdr", idx |-> 0, year |-> 0]
RowTok(i, y) == [t |-> "row", idx |-> i, year |-> y]
NlTok        == [t |-> "nl", idx |-> 0, year |-> 0]

\* {model_name}-{run_name}_{year}.csv and
\* {model_name}-{run_name}-Flythrough_{year}.csv
CsvName(k, y) == [kind |-> k, year |-> y]
NoFile == [kind |-> "none", year |-> 0]

Min(S) == CHOOSE m \in S : \A k \in S : m <= k

Range(f) == {f[k] : k \in DOMAIN f}

\* modeloutputs_metadata.initialize_csvfile: close the open file if one is
\* given, open the file of the year for writing (which empties it) and write
\* the header
initialize_csvfile(fsys, handles, yr, wf) ==
    LET newcsv_filename == CsvName("model", yr)
    IN  [csv |-> [f \in DOMAIN fsys \cup {newcsv_filename} |->
                     IF f = newcsv_filename THEN <<HdrTok>> ELSE fsys[f]],
         handles |-> (IF wf # NoFile THEN handles \ {wf} ELSE handles)
                     \cup {newcsv_filename},
         write_file |-> newcsv_filename]

\* the input of modelregistry: the start year of every file of
\* pattern_files, in the order the two loops visit them
RowSeqs == UNION {[1 .. n -> Years] : n \in 1 .. MaxRows}

\* the coordinate units a flythrough output can carry
RE3   == <<"R_E", "R_E", "R_E">>
DegRE == <<"deg", "deg", "R_E">>
DegKm == <<"deg", "deg", "km">>
Km3   == <<"km", "km", "km">>
UnitTriples == {RE3, DegRE, DegKm, Km3}

\* the input of flythroughregistry: what glob and SF_read return
FlyFiles == [year : Years, units : UnitTriples]
FileSeqs == UNION {[1 .. n -> FlyFiles] : n \in 0 .. MaxFiles}

\* coord1, coord2, coord3 before the first assignment
Unbound == <<>>

\* the if / elif / elif chain on units: a triple none of the branches takes
\* leaves coord1, coord2, coord3 as they were
coord_labels(units, old) ==
    IF units = RE3 THEN <<"X", "Y", "Z">>
    ELSE IF units = DegRE THEN <<"Longitude", "Latitude", "Radius">>
    ELSE IF units = DegKm THEN <<"Longitude", "Latitude", "Height">>
    ELSE old

NoDesc == [k \in {"model", "fly"} |-> [exists |-> FALSE, writes |-> 0]]

\* modelregistry up to the first initialize_csvfile: the descriptor is
\* dumped, the lists are read, year is the year of the dataset's earliest
\* time (MW.File_Times), and the first CSV file is opened
StartModelRegistry ==
    /\ pc = "idle"
    /\ runs < MaxRuns
    /\ \E r \in RowSeqs :
          LET start_year == Min(Range(r))
              init == initialize_csvfile(csv, openHandles, start_year, NoFile)
          IN  /\ rows' = r
              /\ year' = start_year
              /\ csv' = init.csv
              /\ openHandles' = init.handles
              /\ write_file' = init.write_file
              /\ produced' = {init.write_file}
              /\ openLog' = <<init.write_file>>
    /\ descExisted' = desc["model"].exists
    /\ desc' = [desc EXCEPT !["model"] =
                   [exists |-> TRUE, writes |-> @.writes + 1]]
    /\ descWritten' = TRUE
    /\ kind' = "model"
    /\ runs' = runs + 1
    /\ idx' = 0
    /\ pc' = "model_loop"
    /\ UNCHANGED <<files, file_dict, coord, err>>

\* one pass of the loop body of modelregistry
ModelRegistryRow ==
    /\ pc = "model_loop"
    /\ idx < Len(rows)
    /\ LET i    == idx + 1
           init == IF rows[i] # year
                   THEN initialize_csvfile(csv, openHandles, year, write_file)
                   ELSE [csv |-> csv, handles |-> openHandles,
                         write_file |-> write_file]
       IN  /\ csv' = [init.csv EXCEPT ![init.write_file] =
                         Append(@, RowTok(i, rows[i]))]
           /\ openHandles' = init.handles
           /\ write_file' = init.write_file
           /\ produced' = produced \cup {init.write_file}
           /\ openLog' = IF rows[i] # year
                         THEN Append(openLog, init.write_file)
                         ELSE openLog
           /\ idx' = i
    /\ UNCHANGED <<pc, kind, runs, rows, files, year, desc, descExisted,
                   descWritten, file_dict, coord, err>>

\* after the loops: write_file.close(); return None
FinishModelRegistry ==
    /\ pc = "model_loop"
    /\ idx = Len(rows)
    /\ openHandles' = openHandles \ {write_file}
    /\ pc' = "done"
    /\ UNCHANGED <<kind, runs, rows, files, idx, year, write_file, csv,
                   produced, openLog, desc, descExisted, descWritten,
                   file_dict, coord, err>>

\* flythroughregistry up to the glob: the descriptor is dumped unless the
\* file is there already
StartFlythroughRegistry ==
    /\ pc = "idle"
    /\ runs < MaxRuns
    /\ files' \in FileSeqs
    /\ descExisted' = desc["fly"].exists
    /\ IF ~desc["fly"].exists
       THEN /\ desc' = [desc EXCEPT !["fly"] =
                           [exists |-> TRUE, writes |-> @.writes + 1]]
            /\ descWritten' = TRUE
       ELSE /\ desc' = desc
            /\ descWritten' = FALSE
    /\ file_dict' = <<>>
    /\ coord' = Unbound
    /\ produced' = {}
    /\ openLog' = <<>>
    /\ kind' = "fly"
    /\ runs' = runs + 1
    /\ idx' = 0
    /\ pc' = "fly_loop"
    /\ UNCHANGED <<rows, year, write_file, openHandles, csv, err>>

\* one pass of the loop that fills file_dict; reading coord1 before any
\* branch has assigned it raises UnboundLocalError
FlythroughRegistryFile ==
    /\ pc = "fly_loop"
    /\ idx < Len(files)
    /\ LET i   == idx + 1
           f   == files[i]
           lab == coord_labels(f.units, coord)
       IN  /\ idx' = i
           /\ coord' = lab
           /\ IF lab = Unbound
              THEN /\ pc' = "error"
                   /\ err' = "UnboundLocalError"
                   /\ file_dict' = file_dict
              ELSE /\ pc' = pc
                   /\ err' = err
                   /\ file_dict' = Append(file_dict,
                          [idx |-> i, year |-> f.year, units |-> f.units,
                           coords |-> lab])
    /\ UNCHANGED <<kind, runs, rows, files, year, write_file, openHandles,
                   csv, produced, openLog, desc, descExisted, descWritten>>

\* after the loop: years, year_dict and the writing of the CSV files.  The
\* inner comprehension of year_dict unpacks every key of file_dict, a path
\* string, into two names, which raises ValueError; it is evaluated once per
\* year, so only an empty file_dict passes, and then no year is written.
FinishFlythroughRegistry ==
    /\ pc = "fly_loop"
    /\ idx = Len(files)
    /\ IF file_dict # <<>>
       THEN /\ pc' = "error"
            /\ err' = "ValueError"
       ELSE /\ pc' = "done"
            /\ err' = err
    /\ UNCHANGED <<kind, runs, rows, files, idx, year, write_file,
                   openHandles, csv, produced, openLog, desc, descExisted,
                   descWritten, file_dict, coord>>

\* the call is over: its locals are gone, the files stay on disk
ExitBuild ==
    /\ pc \in {"done", "error"}
    /\ pc' = "idle"
    /\ kind' = "none"
    /\ rows' = <<>>
    /\ files' = <<>>
    /\ idx' = 0
    /\ year' = 0
    /\ write_file' = NoFile
    /\ openHandles' = {}
    /\ produced' = {}
    /\ openLog' = <<>>
    /\ descExisted' = FALSE
    /\ descWritten' = FALSE
    /\ file_dict' = <<>>
    /\ coord' = Unbound
    /\ err' = ""
    /\ UNCHANGED <<runs, csv, desc>>

(***************************************************************************)
(* Specifications                                                          *)
(***************************************************************************)
BucketNext ==
    \/ CallBucketName /\ UNCHANGED <<regVars, catVars, crVars>>
    \/ CallFlyBucketName /\ UNCHANGED <<regVars, catVars, crVars>>

\* a path is given; the other programs are not running
InitBucket ==
    /\ bn_platform \in {"posix", "nt"}
    /\ bn_file_dir \in BucketInputs
    /\ bn_model = NoResult
    /\ bn_fly = NoResult
    /\ bn_pc = "input"
    /\ pc = "off"
    /\ kind = "none"
    /\ runs = 0
    /\ rows = <<>>
    /\ files = <<>>
    /\ idx = 0
    /\ year = 0
    /\ write_file = NoFile
    /\ openHandles = {}
    /\ csv = <<>>
    /\ produced = {}
    /\ openLog = <<>>
    /\ desc = NoDesc
    /\ descExisted = FALSE
    /\ descWritten = FALSE
    /\ file_dict = <<>>
    /\ coord = Unbound
    /\ err = ""
    /\ cat_pc = "off"
    /\ cat_in = <<>>
    /\ cat_out = NoOutput
    /\ cr_pc = "off"
    /\ sc_to_mp = <<>>
    /\ crossings = <<>>

SpecBucket == InitBucket /\ [][BucketNext]_vars

RegistryNext ==
    \/ StartModelRegistry /\ UNCHANGED <<bnVars, catVars, crVars>>
    \/ ModelRegistryRow /\ UNCHANGED <<bnVars, catVars, crVars>>
    \/ FinishModelRegistry /\ UNCHANGED <<bnVars, catVars, crVars>>
    \/ StartFlythroughRegistry /\ UNCHANGED <<bnVars, catVars, crVars>>
    \/ FlythroughRegistryFile /\ UNCHANGED <<bnVars, catVars, crVars>>
    \/ FinishFlythroughRegistry /\ UNCHANGED <<bnVars, catVars, crVars>>
    \/ ExitBuild /\ UNCHANGED <<bnVars, catVars, crVars>>

\* no build has run and the disk holds no registry file
InitRegistry ==
    /\ bn_platform = "posix"
    /\ bn_file_dir = <<>>
    /\ bn_model = NoResult
    /\ bn_fly = NoResult
    /\ bn_pc = "off"
    /\ pc = "idle"
    /\ kind = "none"
    /\ runs = 0
    /\ rows = <<>>
    /\ files = <<>>
    /\ idx = 0
    /\ year = 0
    /\ write_file = NoFile
    /\ openHandles = {}
    /\ csv = <<>>
    /\ produced = {}
    /\ openLog = <<>>
    /\ desc = NoDesc
    /\ descExisted = FALSE
    /\ descWritten = FALSE
    /\ file_dict = <<>>
    /\ coord = Unbound
    /\ err = ""
    /\ cat_pc = "off"
    /\ cat_in = <<>>
    /\ cat_out = NoOutput
    /\ cr_pc = "off"
    /\ sc_to_mp = <<>>
    /\ crossings = <<>>

SpecRegistry == InitRegistry /\ [][RegistryNext]_vars

CatalogNext ==
    \/ CallModelCatalogEntry /\ UNCHANGED <<bnVars, regVars, crVars>>
    \/ CallFlythroughCatalogEntry /\ UNCHANGED <<bnVars, regVars, crVars>>

\* the arguments and the collaborators' answers are given
InitCatalog ==
    /\ bn_platform = "posix"
    /\ bn_file_dir = <<>>
    /\ bn_model = NoResult
    /\ bn_fly = NoResult
    /\ bn_pc = "off"
    /\ pc = "off"
    /\ kind = "none"
    /\ runs = 0
    /\ rows = <<>>
    /\ files = <<>>
    /\ idx = 0
    /\ year = 0
    /\ write_file = NoFile
    /\ openHandles = {}
    /\ csv = <<>>
    /\ produced = {}
    /\ openLog = <<>>
    /\ desc = NoDesc
    /\ descExisted = FALSE
    /\ descWritten = FALSE
    /\ file_dict = <<>>
    /\ coord = Unbound
    /\ err = ""
    /\ cat_pc = "input"
    /\ cat_in \in CatalogInputs
    /\ cat_out = NoOutput
    /\ cr_pc = "off"
    /\ sc_to_mp = <<>>
    /\ crossings = <<>>

SpecCatalog == InitCatalog /\ [][CatalogNext]_vars

CrossNext ==
    CallFindCrossings /\ UNCHANGED <<bnVars, regVars, catVars>>

\* a signed-difference sequence is given
InitCrossings ==
    /\ bn_platform = "posix"
    /\ bn_file_dir = <<>>
    /\ bn_model = NoResult
    /\ bn_fly = NoResult
    /\ bn_pc = "off"
    /\ pc = "off"
    /\ kind = "none"
    /\ runs = 0
    /\ rows = <<>>
    /\ files = <<>>
    /\ idx = 0
    /\ year = 0
    /\ write_file = NoFile
    /\ openHandles = {}
    /\ csv = <<>>
    /\ produced = {}
    /\ openLog = <<>>
    /\ desc = NoDesc
    /\ descExisted = FALSE
    /\ descWritten = FALSE
    /\ file_dict = <<>>
    /\ coord = Unbound
    /\ err = ""
    /\ cat_pc = "off"
    /\ cat_in = <<>>
    /\ cat_out = NoOutput
    /\ cr_pc = "input"
    /\ sc_to_mp \in DistanceSeqs
    /\ crossings = <<>>

SpecCrossings == InitCrossings /\ [][CrossNext]_vars

(***************************************************************************)
(* Properties: registry CSV files                                          *)
(***************************************************************************)
\* the start year of every row the running build derives from its input
InputYears ==
    IF kind = "fly" THEN [k \in 1 .. Len(files) |-> files[k].year] ELSE rows

\* how often the text of row i stands in file f
Occurrences(f, i) ==
    Cardinality({k \in 1 .. Len(csv[f]) : csv[f][k] = RowTok(i, InputYears[i])})

\* the rows whose text stands in file f
RowsIn(f) == {csv[f][k].idx : k \in {j \in 1 .. Len(csv[f]) :
                                          csv[f][j].t = "row"}}

\* the lines of a text: a line ends at a line break, text after the last
\* line break is a line of its own
RECURSIVE SplitLines(_, _)
SplitLines(content, line) ==
    IF content = <<>>
    THEN IF line = <<>> THEN <<>> ELSE <<line>>
    ELSE IF Head(content) = NlTok
    THEN <<line>> \o SplitLines(Tail(content), <<>>)
    ELSE SplitLines(Tail(content), Append(line, Head(content)))

\* C1: when a registry build has completed, every row derived from the input
\* stands exactly once in exactly one of the per-year CSV files, and that
\* file is the one named after the calendar year of the row's start date.
C1_RowInExactlyItsYearFile ==
    pc = "done" =>
        \A i \in 1 .. Len(InputYears) :
            LET holders == {f \in produced : Occurrences(f, i) > 0}
            IN  /\ Cardinality(holders) = 1
                /\ \A f \in holders : /\ Occurrences(f, i) = 1
                                      /\ f.year = InputYears[i]

\* C2: when a registry build has completed, the CSV files it produced are
\* exactly one file per distinct start year of the rows, named after the
\* build and that year, and each holds exactly the rows that start in its
\* year (so rows of 2020 and of 2021 give a 2020 file and a 2021 file).
C2_OneFilePerStartYear ==
    pc = "done" =>
        /\ produced = {CsvName(kind, y) : y \in Range(InputYears)}
        /\ \A f \in produced :
               RowsIn(f) = {i \in 1 .. Len(InputYears) : InputYears[i] = f.year}

\* C9: every registry CSV file of a completed build is the header line
\* followed by one line per row: header and rows each end in a line break,
\* so a file of k rows has k + 1 lines and no line holds two pieces.
C9_OneLinePerRow ==
    pc = "done" =>
        \A f \in produced :
            LET lines == SplitLines(csv[f], <<>>)
                k     == Cardinality({j \in 1 .. Len(csv[f]) :
                                         csv[f][j].t = "row"})
            IN  /\ Len(lines) = k + 1
                /\ lines[1] = <<HdrTok>>
                /\ \A j \in 2 .. Len(lines) :
                       Len(lines[j]) = 1 /\ lines[j][1].t = "row"
                /\ csv[f][Len(csv[f])] = NlTok

(***************************************************************************)
(* Properties: file handles and the order of writing                       *)
(***************************************************************************)
\* C12: during a registry build at most one CSV file object is open; a new
\* per-year file is opened exactly when the start year of the current row
\* differs from the year of the open file, so that after every row the open
\* file is the file of that row's year; and after a normal end no file
\* object is open.
C12_OneOpenFileOfTheRowYear ==
    /\ Cardinality(openHandles) <= 1
    /\ pc = "done" => openHandles = {}
    /\ pc = "model_loop" =>
           /\ openHandles = {write_file}
           /\ idx >= 1 => write_file.year = rows[idx]

\* C13: the per-year files of a build are written in ascending year order,
\* and when the build has completed each of them holds the rows of its
\* year in the order of the input list.
C13_AscendingYearsInputOrder ==
    /\ \A j \in 1 .. Len(openLog) : \A k \in 1 .. Len(openLog) :
           j < k => openLog[j].year < openLog[k].year
    /\ pc = "done" =>
           \A f \in produced :
               LET written  == SelectSeq(csv[f], LAMBDA t : t.t = "row")
                   all      == [k \in 1 .. Len(InputYears) |-> k]
                   expected == SelectSeq(all,
                                   LAMBDA k : InputYears[k] = f.year)
               IN  [k \in 1 .. Len(written) |-> written[k].idx] = expected

(***************************************************************************)
(* Properties: flythroughregistry rows and descriptors                     *)
(***************************************************************************)
\* C4: in flythroughregistry the coordinate labels of a file's row follow
\* from the file's own unit triple alone: the three known triples give
\* their labels, and a file with any other triple ends the build in an
\* error without a row for it (labels of an earlier file are not reused).
C4_LabelsFromOwnUnits ==
    kind = "fly" =>
        /\ \A k \in 1 .. Len(file_dict) :
               LET e == file_dict[k]
               IN  \/ e.units = RE3 /\ e.coords = <<"X", "Y", "Z">>
                   \/ /\ e.units = DegRE
                      /\ e.coords = <<"Longitude", "Latitude", "Radius">>
                   \/ /\ e.units = DegKm
                      /\ e.coords = <<"Longitude", "Latitude", "Height">>
        /\ \A k \in 1 .. idx :
               files[k].units \notin {RE3, DegRE, DegKm} =>
                   /\ pc = "error"
                   /\ \A j \in 1 .. Len(file_dict) : file_dict[j].idx # k

\* C5: a registry build that finds the descriptor of its dataset already
\* in place does not write it again, so no descriptor is ever written more
\* than once.
C5_DescriptorWrittenOnce ==
    /\ descExisted => ~descWritten
    /\ \A k \in DOMAIN desc : desc[k].writes <= 1

(***************************************************************************)
(* Properties: bucket_name                                                 *)
(***************************************************************************)
\* C3: for a path s3://<bucket>/<sub1>/.../<subN>/ with N >= 1 non-empty
\* segments, both copies of bucket_name return s3://<bucket>/, whatever N
\* is; s3://mybucket/ModelOutputs/run1/ gives s3://mybucket/.
C3_BucketOfValidPath ==
    bn_pc = "returned" =>
        /\ \A b \in BucketNames :
               IsPathOfBucket(bn_file_dir, b) =>
                   /\ bn_model = [ret |-> "value",
                                  val |-> S3 \o b \o <<Slash>>]
                   /\ bn_fly = [ret |-> "value",
                                val |-> S3 \o b \o <<Slash>>]
        /\ bn_file_dir = ExamplePath =>
               /\ bn_model = [ret |-> "value", val |-> ExampleBucket]
               /\ bn_fly = [ret |-> "value", val |-> ExampleBucket]

\* both copies have returned the bucket of a path of two segments, one of
\* them holding a backslash
C3_Witness ==
    /\ bn_pc = "returned"
    /\ bn_file_dir = PathOf(<<"a", "b">>, <<<<"x">>, <<"x", Backslash>>>>)
    /\ bn_model.val = S3 \o <<"a", "b", Slash>>
    /\ bn_fly.val = S3 \o <<"a", "b", Slash>>

\* C11: for an input without the 's3://' prefix or without the trailing
\* slash, both copies of bucket_name end in a validation error and return no
\* string.
C11_MalformedPathIsRejected ==
    /\ bn_pc = "returned"
    /\ \/ Take(bn_file_dir, 5) # S3
       \/ bn_file_dir = <<>>
       \/ bn_file_dir[Len(bn_file_dir)] # Slash
    => /\ bn_model.ret = "error"
       /\ bn_fly.ret = "error"

\* C15: for a path that names only the bucket, s3://<bucket>/ with a
\* non-empty bucket and no subdirectory, both copies of bucket_name return
\* that same string.
C15_BarePathIsItsOwnBucket ==
    bn_pc = "returned" /\ bn_file_dir \in BarePaths =>
        /\ bn_model = [ret |-> "value", val |-> bn_file_dir]
        /\ bn_fly = [ret |-> "value", val |-> bn_file_dir]

(***************************************************************************)
(* Properties: catalog entries                                             *)
(***************************************************************************)
\* the characters of a timestamp in code-point order
CodePointOrder == <<"+", "-", ".", "0", "1", "2", "3", "4", "5", "6", "7",
                    "8", "9", ":", "T", "Z">>

Ord(c) == CHOOSE k \in 1 .. Len(CodePointOrder) : CodePointOrder[k] = c

\* Python a <= b on strings
RECURSIVE StrLeq(_, _)
StrLeq(a, b) ==
    IF a = <<>> THEN TRUE
    ELSE IF b = <<>> THEN FALSE
    ELSE IF Head(a) # Head(b) THEN Ord(Head(a)) < Ord(Head(b))
    ELSE StrLeq(Tail(a), Tail(b))

IsDigit(c) == \E k \in 1 .. 10 : DigitChars[k] = c

\* the shape YYYY-MM-DDTHH:MM:SSZ
IsoShape(s) ==
    /\ Len(s) = 20
    /\ s[5] = "-" /\ s[8] = "-" /\ s[11] = "T"
    /\ s[14] = ":" /\ s[17] = ":" /\ s[20] = "Z"
    /\ \A k \in {1, 2, 3, 4, 6, 7, 9, 10, 12, 13, 15, 16, 18, 19} :
           IsDigit(s[k])

RECURSIVE ParseNum(_)
ParseNum(s) ==
    IF s = <<>> THEN 0
    ELSE 10 * ParseNum(SubSeq(s, 1, Len(s) - 1))
         + (CHOOSE n \in 0 .. 9 : DigitChars[n + 1] = s[Len(s)])

\* the time a timestamp of the shape above names
ParseIso(s) ==
    <<ParseNum(SubSeq(s, 1, 4)), ParseNum(SubSeq(s, 6, 7)),
      ParseNum(SubSeq(s, 9, 10)), ParseNum(SubSeq(s, 12, 13)),
      ParseNum(SubSeq(s, 15, 16)), ParseNum(SubSeq(s, 18, 19))>>

\* C6: every catalog entry returned by modelcatalog_entry or
\* flythroughcatalog_entry has startDate <= stopDate, as strings compared
\* character by character and as the times the two strings name, for every
\* pair of bounds the time lookup returns.
C6_StartNotAfterStop ==
    cat_pc = "returned" /\ cat_out.status = "entry" =>
        /\ StrLeq(cat_out.entry.startDate, cat_out.entry.stopDate)
        /\ IsoShape(cat_out.entry.startDate)
        /\ IsoShape(cat_out.entry.stopDate)
        /\ TupleLeq(ParseIso(cat_out.entry.startDate),
                    ParseIso(cat_out.entry.stopDate))

\* an entry whose bounds start in September and stop in October, the start
\* carrying microseconds
C6_Witness ==
    /\ cat_pc = "returned"
    /\ cat_out.status = "entry"
    /\ cat_in.start_dt.mo = 9
    /\ cat_in.stop_dt.mo = 10
    /\ cat_in.start_dt.us # 0
    /\ cat_out.entry.startDate # cat_out.entry.stopDate

\* C7: in every returned catalog entry startDate, stopDate,
\* modificationDate and creationDate each have the shape
\* YYYY-MM-DDTHH:MM:SSZ (20 characters, truncated to seconds, ending in Z).
C7_TimestampsAreIsoUtc ==
    cat_pc = "returned" /\ cat_out.status = "entry" =>
        /\ IsoShape(cat_out.entry.startDate)
        /\ IsoShape(cat_out.entry.stopDate)
        /\ IsoShape(cat_out.entry.modificationDate)
        /\ IsoShape(cat_out.entry.creationDate)

\* C10: when modelcatalog_entry is given a resource URL and the retrieval
\* fails (network error, malformed JSON, document without
\* runPublicationTime), the call raises and returns no entry.
C10_FetchFailureRaises ==
    /\ cat_pc = "returned"
    /\ cat_in.fn = "model"
    /\ cat_in.resourceURL # ""
    /\ cat_in.fetch \in {"network_error", "malformed_json", "no_key"}
    => /\ cat_out.status = "raised"
       /\ cat_out.exc # ""
       /\ cat_out.entry = NoEntry

\* a document without runPublicationTime has ended the call in KeyError
C10_Witness ==
    /\ cat_pc = "returned"
    /\ cat_in.fn = "model"
    /\ cat_in.resourceURL # ""
    /\ cat_in.fetch = "no_key"
    /\ cat_out.status = "raised"
    /\ cat_out.exc = "KeyError"

\* C14: catalog ids are unique per dataset: the id of a returned entry
\* differs from the id the builders give to every other dataset, one that
\* differs in model name, in run name (letters, digits, underscores and
\* dashes) or in kind (model output or flythrough).
C14_IdsAreUnique ==
    cat_pc = "returned" /\ cat_out.status = "entry" =>
        \A fn2 \in {"model", "fly"} : \A m2 \in ModelNames :
            \A r2 \in RunNames :
                LET other == [cat_in EXCEPT !.fn = fn2, !.model_name = m2,
                                            !.run_name = r2,
                                            !.resourceURL = "",
                                            !.fetch = "not_fetched"]
                    id2   == IF fn2 = "model"
                             THEN modelcatalog_entry(other).entry.id
                             ELSE flythroughcatalog_entry(other).entry.id
                IN  <<fn2, m2, r2>> #
                        <<cat_in.fn, cat_in.model_name, cat_in.run_name>>
                    => id2 # cat_out.entry.id

(***************************************************************************)
(* Properties: find_magnetopause_crossings                                 *)
(***************************************************************************)
\* C8: find_magnetopause_crossings returns, in ascending order, exactly the
\* indices i (0 <= i < n-1) at which s[i] and s[i+1] differ in sign (zero
\* being a sign of its own); [1, 1, -1, -1, 2] gives [1, 3] and a sequence
\* without a sign change gives the empty result.
C8_IndexBeforeEverySignChange ==
    cr_pc = "returned" =>
        LET s == sc_to_mp
            SameSign(a, b) == \/ a < 0 /\ b < 0
                              \/ a = 0 /\ b = 0
                              \/ a > 0 /\ b > 0
            changes == {i \in 0 .. Len(s) - 2 : ~SameSign(s[i + 1], s[i + 2])}
        IN  /\ \A k \in 1 .. Len(crossings) - 1 :
                   crossings[k] < crossings[k + 1]
            /\ Range(crossings) = changes
            /\ s = <<1, 1, -1, -1, 2>> => crossings = <<1, 3>>
            /\ changes = {} => crossings = <<>>

\* the documented example has been evaluated
C8_Witness ==
    /\ cr_pc = "returned"
    /\ sc_to_mp = <<1, 1, -1, -1, 2>>
    /\ crossings = <<1, 3>>

====
